---- MODULE Spec2Model ----
(***************************************************************************)
(* The ETL pipeline of concurrent-etl-go (etl/main.go): recovery of failed *)
(* buffers, permit-gated extraction goroutines, one load worker per lane,  *)
(* flush to the ingestion endpoint, failed batches saved in a lane-named   *)
(* gzip file.  A run is followed by further runs (process restart), and a  *)
(* run may be cut short by a crash; the disk and the endpoint survive.     *)
(*                                                                         *)
(* Environment assumptions: os.Create, the gzip/JSON write of a buffer and *)
(* os.Remove succeed when they are reached (the faults modelled are the    *)
(* ones the program is written for: extraction error, endpoint failure,    *)
(* undecodable file, process crash).  Numbers with a decimal point are     *)
(* kept in tenths.                                                         *)
(***************************************************************************)
EXTENDS Integers, Sequences, FiniteSets, TLC

\* ---------------------------------------------------------------- bounds
\* Number of rows of appliances.csv (len(appliances)).
NumAppliances == 3
\* Number of runs of the process that are followed (the first and restarts).
MaxRuns == 2
\* const loadWorkers (10 in the source), scaled down.
loadWorkers == 2
\* const extractWorkers (1000 in the source), scaled down.
extractWorkers == 2
\* const bufferThreshold (200 in the source), scaled down.
bufferThreshold == 2
\* Capacity of each dataChan[i] (2000 in the source), scaled down.
chanCap == 2

Lanes == 0 .. (loadWorkers - 1)
Appliances == 0 .. (NumAppliances - 1)

\* ------------------------------------------------------- pure functions
\* Characters of a file name's variable part: the digits 0..9 are 0..9.
Minus == 10
\* Any character that is neither a digit nor a sign.
Letter == 11

\* strconv.ParseFloat with the error dropped: an unparsable field gives 0.
\* A field is its value in tenths, or Garbled.
Garbled == -1
ParseFloat(s) == IF s = Garbled THEN 0 ELSE s

\* extractCpuData's result for the appliance at position i in run r.
CpuStatsOf(i, r) ==
  [Name |-> i, Timestamp |-> r, CPUNumber |-> 0,
   PIdle |-> 950, PUser |-> 30, PSys |-> 10, PIRQ |-> 5, PNice |-> 0]

transform(cpu) ==
  LET idle  == ParseFloat(cpu.PIdle)
      pNice == ParseFloat(cpu.PNice)
      pUser == ParseFloat(cpu.PUser)
      pSys  == ParseFloat(cpu.PSys)
      pIRQ  == ParseFloat(cpu.PIRQ)
  IN [Name |-> cpu.Name, CPUNumber |-> cpu.CPUNumber, Timestamp |-> cpu.Timestamp,
      Indicators |-> <<1000 - idle, pNice, pUser, pSys, pIRQ>>]

\* Fault variant: the lane is shifted by one.
TargetWorkerMutant(index) == (index + 1) % loadWorkers
\* index % loadWorkers
targetWorker(index) == index % loadWorkers

\* fmt.Sprintf("%d", workerID): the decimal digits of a lane number.
RECURSIVE Digits(_)
Digits(n) == IF n < 10 THEN <<n>> ELSE Digits(n \div 10) \o <<n % 10>>

\* The variable part of "buffer_failed_worker%d" + ".json.gz".
FileNameOf(workerID) == Digits(workerID)

\* strconv.Atoi on the text after "worker": an optional sign, then digits only.
RECURSIVE DigitsValue(_)
DigitsValue(s) ==
  IF s = <<>> THEN 0 ELSE 10 * DigitsValue(SubSeq(s, 1, Len(s) - 1)) + s[Len(s)]

IsDigits(s) == Len(s) > 0 /\ \A j \in 1 .. Len(s) : s[j] \in 0 .. 9

extractWorkerID(name) ==
  IF IsDigits(name) THEN DigitsValue(name)
  ELSE IF Len(name) > 1 /\ name[1] = Minus /\ IsDigits(Tail(name))
       THEN 0 - DigitsValue(Tail(name))
       ELSE 0

\* Names that match buffer_failed_worker*.json.gz and that no run of this
\* build writes: the lane after the last one (left by a build with more
\* load workers), a negative number, a text that is no number.
ForeignNames == {Digits(loadWorkers), <<Minus, 1>>, <<Letter>>}

\* The names a run can write, and the other names the pattern matches.
FileNames == {FileNameOf(k) : k \in Lanes} \cup ForeignNames

\* json.Encoder + gzip.Writer: the file's content, one entry per record.
EncodeRecord(d) == <<d.Name, d.CPUNumber, d.Timestamp, d.Indicators>>
Encode(data) == [j \in 1 .. Len(data) |-> EncodeRecord(data[j])]

\* gzip.Reader + json.Decoder: the records of a well-formed content.
DecodeRecord(e) == [Name |-> e[1], CPUNumber |-> e[2], Timestamp |-> e[3], Indicators |-> e[4]]
Decode(content) == [j \in 1 .. Len(content) |-> DecodeRecord(content[j])]

\* A file: absent, present but not decodable (truncated), or well-formed.
NoFile == [st |-> "none", data |-> <<>>]
BadFile == [st |-> "bad", data |-> <<>>]
GoodFile(data) == [st |-> "ok", data |-> Encode(data)]

\* Lexicographic order on names, the order filepath.Glob returns them in.
CharCode(c) == IF c = Minus THEN 45 ELSE IF c = Letter THEN 120 ELSE 48 + c

RECURSIVE LexLess(_, _)
LexLess(a, b) ==
  IF a = <<>> THEN b # <<>>
  ELSE IF b = <<>> THEN FALSE
  ELSE IF a[1] # b[1] THEN CharCode(a[1]) < CharCode(b[1])
  ELSE LexLess(Tail(a), Tail(b))

RECURSIVE SortedNames(_)
SortedNames(S) ==
  IF S = {} THEN <<>>
  ELSE LET m == CHOOSE x \in S : \A y \in S \ {x} : LexLess(x, y)
       IN <<m>> \o SortedNames(S \ {m})

Range(s) == {s[j] : j \in 1 .. Len(s)}


\* ----------------------------------------------------------------- state
VARIABLES
  mainpc,      \* where main() is: init, recover, startLoad, spawn, close, done;
               \* crashed (killed) or panic (a Go run-time panic ended it)
  run,         \* number of the current run of the process
  files,       \* the working directory: name -> file
  accepted,    \* records the endpoint has answered 2xx for (all runs)
  recList,     \* loadFailedBuffers: files, the result of filepath.Glob
  recIdx,      \* loadFailedBuffers: position of the range loop in files
  recBusy,     \* loadFailedBuffers: the current file has been read
  recData,     \* loadFailedBuffers: records of dataList not yet enqueued
  dataChan,    \* lane -> content of the buffered channel
  closed,      \* lane -> the channel has been closed
  buffers,     \* lane -> Buffer.Data
  lwpc,        \* lane -> where loadWorker is: off, recv, flush, create, write, done
  lwFinal,     \* lane -> the worker has left its range loop (final flush)
  tpc,         \* appliance -> where its goroutine is: new, extract, send, release, wgdone, done
  spawnIdx,    \* main: idx of the range loop over appliances
  closeIdx,    \* main: position of the range loop over dataChan
  sem,         \* number of tokens in the sem channel
  extractWg,   \* counter of extractWg
  loadWg,      \* counter of loadWg
  \* history, per run
  enq,         \* lane -> every record sent on the channel, in order
  flushed,     \* lane -> every call of flushBuffer: [batch, ok, final]
  closeCount,  \* lane -> number of close(ch) executed
  extractFailed, \* appliances whose extractCpuData returned an error
  startDisk,   \* the working directory as filepath.Glob saw it
  \* history, all runs
  owed         \* records that were in a decodable file when some run started

vars == <<mainpc, run, files, accepted, recList, recIdx, recBusy, recData, dataChan,
          closed, buffers, lwpc, lwFinal, tpc, spawnIdx, closeIdx, sem, extractWg,
          loadWg, enq, flushed, closeCount, extractFailed, startDisk, owed>>

\* What survives the process.
disk == <<files, accepted, owed>>
\* The memory of the process (and the history of the run).
memory == <<recList, recIdx, recBusy, recData, dataChan, closed, buffers, lwpc,
            lwFinal, tpc, spawnIdx, closeIdx, sem, extractWg, loadWg, enq, flushed,
            closeCount, extractFailed, startDisk>>
recovery == <<recList, recIdx, recBusy, recData>>
extraction == <<tpc, spawnIdx, sem, extractWg, extractFailed>>
loading == <<buffers, lwpc, lwFinal, flushed, loadWg>>

\* initBuffers, initChannels and the zero values of main's locals.
FreshMemory ==
  /\ recList = <<>> /\ recIdx = 1 /\ recBusy = FALSE /\ recData = <<>>
  /\ dataChan = [k \in Lanes |-> <<>>]
  /\ closed = [k \in Lanes |-> FALSE]
  /\ buffers = [k \in Lanes |-> <<>>]
  /\ lwpc = [k \in Lanes |-> "off"]
  /\ lwFinal = [k \in Lanes |-> FALSE]
  /\ tpc = [i \in Appliances |-> "new"]
  /\ spawnIdx = 0 /\ closeIdx = 0 /\ sem = 0 /\ extractWg = 0 /\ loadWg = 0
  /\ enq = [k \in Lanes |-> <<>>]
  /\ flushed = [k \in Lanes |-> <<>>]
  /\ closeCount = [k \in Lanes |-> 0]
  /\ extractFailed = {}
  /\ startDisk = [f \in FileNames |-> NoFile]

\* The first run starts in an empty working directory.
Init ==
  /\ mainpc = "init" /\ run = 1
  /\ files = [f \in FileNames |-> NoFile]
  /\ accepted = {} /\ owed = {}
  /\ FreshMemory

\* The process is running.
Alive == mainpc \notin {"done", "crashed", "panic"}

\* The memory of a process that has just started (or is gone).
ResetMemory ==
  /\ recList' = <<>> /\ recIdx' = 1 /\ recBusy' = FALSE /\ recData' = <<>>
  /\ dataChan' = [k \in Lanes |-> <<>>]
  /\ closed' = [k \in Lanes |-> FALSE]
  /\ buffers' = [k \in Lanes |-> <<>>]
  /\ lwpc' = [k \in Lanes |-> "off"]
  /\ lwFinal' = [k \in Lanes |-> FALSE]
  /\ tpc' = [i \in Appliances |-> "new"]
  /\ spawnIdx' = 0 /\ closeIdx' = 0 /\ sem' = 0 /\ extractWg' = 0 /\ loadWg' = 0
  /\ enq' = [k \in Lanes |-> <<>>]
  /\ flushed' = [k \in Lanes |-> <<>>]
  /\ closeCount' = [k \in Lanes |-> 0]
  /\ extractFailed' = {}
  /\ startDisk' = [f \in FileNames |-> NoFile]

\* The process ends here and its memory is gone.
Dies(how) ==
  /\ mainpc' = how
  /\ ResetMemory

\* Records of the decodable files of a directory.
RecordsOnDisk(d) ==
  UNION {Range(Decode(d[f].data)) : f \in {g \in DOMAIN d : d[g].st = "ok"}}

\* ---------------------------------------------------- loadFailedBuffers
\* files, err := filepath.Glob("buffer_failed_worker*.json.gz")
Glob ==
  /\ mainpc = "init"
  /\ mainpc' = "recover"
  /\ recList' = SortedNames({f \in FileNames : files[f].st # "none"})
  /\ recIdx' = 1
  /\ startDisk' = files
  /\ owed' = owed \cup RecordsOnDisk(files)
  /\ UNCHANGED <<run, files, accepted, recBusy, recData, dataChan, closed, extraction,
                 loading, closeIdx, enq, closeCount>>

\* Fault variant: any file that exists is taken as read.
DecodableMutant(f) == f.st # "none"
\* readBufferFromFile returns no error.
Decodable(f) == f.st = "ok"

\* dataList, err := readBufferFromFile(file); on error: continue
RecoverRead ==
  /\ mainpc = "recover" /\ ~recBusy /\ recIdx <= Len(recList)
  /\ LET file == recList[recIdx] IN
       IF Decodable(files[file])
       THEN /\ recBusy' = TRUE
            /\ recData' = Decode(files[file].data)
            /\ recIdx' = recIdx
       ELSE /\ recBusy' = FALSE
            /\ recData' = <<>>
            /\ recIdx' = recIdx + 1
  /\ UNCHANGED <<mainpc, run, disk, recList, dataChan, closed, extraction, loading,
                 closeIdx, enq, closeCount, startDisk>>

\* Fault variant: every recovered file is replayed on lane 0.
RecoverLaneMutant(file) == 0
\* The lane a recovered file's records go to.
RecoverLane(file) == extractWorkerID(file)

\* dataChan[workerID] <- data, for the next data of dataList
RecoverEnqueue ==
  /\ mainpc = "recover" /\ recBusy /\ recData # <<>>
  /\ LET workerID == RecoverLane(recList[recIdx]) IN
       IF workerID \notin Lanes
       THEN \* index out of range
            /\ Dies("panic")
            /\ UNCHANGED <<run, disk>>
       ELSE /\ Len(dataChan[workerID]) < chanCap
            /\ dataChan' = [dataChan EXCEPT ![workerID] = Append(@, Head(recData))]
            /\ enq' = [enq EXCEPT ![workerID] = Append(@, Head(recData))]
            /\ recData' = Tail(recData)
            /\ UNCHANGED <<mainpc, run, disk, recList, recIdx, recBusy, closed,
                           extraction, loading, closeIdx, closeCount, startDisk>>

\* Fault variant: the file is removed without waiting for the loop.
EnqueueLoopDoneMutant == TRUE
\* The loop over dataList has ended.
EnqueueLoopDone == recData = <<>>

\* err = os.Remove(file)
RecoverRemove ==
  /\ mainpc = "recover" /\ recBusy /\ EnqueueLoopDone
  /\ files' = [files EXCEPT ![recList[recIdx]] = NoFile]
  /\ recBusy' = FALSE
  /\ recData' = <<>>
  /\ recIdx' = recIdx + 1
  /\ UNCHANGED <<mainpc, run, accepted, owed, recList, dataChan, closed, extraction,
                 loading, closeIdx, enq, closeCount, startDisk>>

\* Fault variant: main does not wait for loadFailedBuffers.
RecoveryReturnedMutant == TRUE
\* The range loop over files has ended.
RecoveryReturned == ~recBusy /\ recIdx > Len(recList)

\* The range loop over files has ended: loadFailedBuffers returns.
RecoverDone ==
  /\ mainpc = "recover" /\ RecoveryReturned
  /\ mainpc' = "startLoad"
  /\ UNCHANGED <<run, disk, memory>>


\* ------------------------------------------------------------------ main
\* for i := 0; i < loadWorkers; i++ { loadWg.Add(1); go loadWorker(&loadWg, i) }
StartLoadWorkers ==
  /\ mainpc = "startLoad"
  /\ mainpc' = "spawn"
  /\ lwpc' = [k \in Lanes |-> "recv"]
  /\ loadWg' = loadWorkers
  /\ UNCHANGED <<run, disk, recovery, dataChan, closed, buffers, lwFinal, flushed,
                 extraction, closeIdx, enq, closeCount, startDisk>>

\* Fault variant: the permit is not waited for.
PermitFreeMutant == TRUE
\* sem <- struct{}{} can proceed: the channel of capacity extractWorkers is not full.
PermitFree == sem < extractWorkers

\* sem <- struct{}{}; extractWg.Add(1); go func(ap, index) {...}(appliance, idx)
Spawn ==
  /\ mainpc = "spawn" /\ spawnIdx < NumAppliances
  /\ PermitFree
  /\ sem' = sem + 1
  /\ extractWg' = extractWg + 1
  /\ tpc' = [tpc EXCEPT ![spawnIdx] = "extract"]
  /\ spawnIdx' = spawnIdx + 1
  /\ UNCHANGED <<mainpc, run, disk, recovery, extractFailed, dataChan, closed, loading, closeIdx,
                 enq, closeCount, startDisk>>

\* Fault variant: the channels are closed without waiting for the tasks.
AllExtractedMutant == TRUE
\* extractWg.Wait() returns.
AllExtracted == extractWg = 0

\* The range loop over appliances has ended; extractWg.Wait()
ExtractWait ==
  /\ mainpc = "spawn" /\ spawnIdx = NumAppliances
  /\ AllExtracted
  /\ mainpc' = "close"
  /\ closeIdx' = 0
  /\ UNCHANGED <<run, disk, recovery, dataChan, closed, extraction, loading, enq,
                 closeCount, startDisk>>

\* close(ch), for the next ch of dataChan
CloseChan ==
  /\ mainpc = "close" /\ closeIdx < loadWorkers
  /\ IF closed[closeIdx]
     THEN \* close of closed channel
          /\ Dies("panic")
          /\ UNCHANGED <<run, disk>>
     ELSE /\ closed' = [closed EXCEPT ![closeIdx] = TRUE]
          /\ closeCount' = [closeCount EXCEPT ![closeIdx] = @ + 1]
          /\ closeIdx' = closeIdx + 1
          /\ UNCHANGED <<mainpc, run, disk, recovery, dataChan, extraction, loading,
                         enq, startDisk>>

\* loadWg.Wait() returns; main returns.
LoadWait ==
  /\ mainpc = "close" /\ closeIdx = loadWorkers
  /\ loadWg = 0
  /\ mainpc' = "done"
  /\ UNCHANGED <<run, disk, memory>>

\* ------------------------------------------------- extraction goroutine
\* cpuData, err := extractCpuData(ap), err == nil
ExtractOk(i) ==
  /\ Alive /\ tpc[i] = "extract"
  /\ tpc' = [tpc EXCEPT ![i] = "send"]
  /\ UNCHANGED <<mainpc, run, disk, recovery, dataChan, closed, spawnIdx, extractFailed, sem,
                 extractWg, loading, closeIdx, enq, closeCount, startDisk>>

\* Fault variant: the return after the log line is missing.
AfterExtractErrMutant == "send"
\* Where the goroutine goes on an extraction error: return, so to the deferred calls.
AfterExtractErr == "release"

\* cpuData, err := extractCpuData(ap), err != nil: log and return
ExtractErr(i) ==
  /\ Alive /\ tpc[i] = "extract"
  /\ tpc' = [tpc EXCEPT ![i] = AfterExtractErr]
  /\ extractFailed' = extractFailed \cup {i}
  /\ UNCHANGED <<mainpc, run, disk, recovery, dataChan, closed, spawnIdx, sem,
                 extractWg, loading, closeIdx, enq, closeCount, startDisk>>

\* deviceData := transform(cpuData); dataChan[index % loadWorkers] <- deviceData
Enqueue(i) ==
  /\ Alive /\ tpc[i] = "send"
  /\ LET deviceData == transform(CpuStatsOf(i, run))
         target == targetWorker(i)
     IN IF closed[target]
        THEN \* send on closed channel
             /\ Dies("panic")
             /\ UNCHANGED <<run, disk>>
        ELSE /\ Len(dataChan[target]) < chanCap
             /\ dataChan' = [dataChan EXCEPT ![target] = Append(@, deviceData)]
             /\ enq' = [enq EXCEPT ![target] = Append(@, deviceData)]
             /\ tpc' = [tpc EXCEPT ![i] = "release"]
             /\ UNCHANGED <<mainpc, run, disk, recovery, closed, spawnIdx, extractFailed, sem,
                            extractWg, loading, closeIdx, closeCount, startDisk>>

\* deferred: <-sem
ReleaseSem(i) ==
  /\ Alive /\ tpc[i] = "release"
  /\ sem' = sem - 1
  /\ tpc' = [tpc EXCEPT ![i] = "wgdone"]
  /\ UNCHANGED <<mainpc, run, disk, recovery, dataChan, closed, spawnIdx, extractFailed, extractWg,
                 loading, closeIdx, enq, closeCount, startDisk>>

\* deferred: extractWg.Done()
WgDone(i) ==
  /\ Alive /\ tpc[i] = "wgdone"
  /\ extractWg' = extractWg - 1
  /\ tpc' = [tpc EXCEPT ![i] = "done"]
  /\ UNCHANGED <<mainpc, run, disk, recovery, dataChan, closed, spawnIdx, extractFailed, sem,
                 loading, closeIdx, enq, closeCount, startDisk>>

\* Fault variant: the item is put in front.
AppendItemMutant(data, item) == <<item>> \o data
\* ------------------------------------------------------------ loadWorker
\* buffer.Data = append(buffer.Data, item)
AppendItem(data, item) == Append(data, item)

\* Fault variant: off by one, the flush comes one record late.
AtThresholdMutant(data) == Len(data) > bufferThreshold
\* len(buffer.Data) >= bufferThreshold
AtThreshold(data) == Len(data) >= bufferThreshold

\* for item := range ch: Lock, append, flush when the threshold is reached
Recv(k) ==
  /\ Alive /\ lwpc[k] = "recv" /\ dataChan[k] # <<>>
  /\ LET data == AppendItem(buffers[k], Head(dataChan[k])) IN
       /\ buffers' = [buffers EXCEPT ![k] = data]
       /\ lwpc' = [lwpc EXCEPT ![k] = IF AtThreshold(data) THEN "flush" ELSE "recv"]
  /\ dataChan' = [dataChan EXCEPT ![k] = Tail(@)]
  /\ UNCHANGED <<mainpc, run, disk, recovery, closed, lwFinal, flushed, loadWg,
                 extraction, closeIdx, enq, closeCount, startDisk>>

\* The final flush is needed: len(buffer.Data) > 0
\* Fault variant: a remainder below the threshold is not flushed.
RemainderDroppedMutant(data) == Len(data) >= bufferThreshold
\* Fault variant: the final flush is not guarded.
HasRemainderMutant(data) == Len(data) >= 0
HasRemainder(data) == Len(data) > 0

\* The range loop ends (channel closed and drained); final flush or return.
RangeEnd(k) ==
  /\ Alive /\ lwpc[k] = "recv" /\ dataChan[k] = <<>> /\ closed[k]
  /\ lwFinal' = [lwFinal EXCEPT ![k] = TRUE]
  /\ IF HasRemainder(buffers[k])
     THEN /\ lwpc' = [lwpc EXCEPT ![k] = "flush"]
          /\ loadWg' = loadWg
     ELSE /\ lwpc' = [lwpc EXCEPT ![k] = "done"]
          /\ loadWg' = loadWg - 1
  /\ UNCHANGED <<mainpc, run, disk, recovery, dataChan, closed, buffers, flushed,
                 extraction, closeIdx, enq, closeCount, startDisk>>

\* toSend := make([]DeviceData, len(buffer.Data)); copy(toSend, buffer.Data)
toSend(k) == [j \in 1 .. Len(buffers[k]) |-> buffers[k][j]]

\* flushBuffer returns to loadWorker: back into the loop, or wg.Done().
Returned(k) ==
  /\ lwpc' = [lwpc EXCEPT ![k] = IF lwFinal[k] THEN "done" ELSE "recv"]
  /\ loadWg' = IF lwFinal[k] THEN loadWg - 1 ELSE loadWg

\* sendToAPI returns nil (status 200..299); buffer.Data = nil
SendOk(k) ==
  /\ Alive /\ lwpc[k] = "flush"
  /\ accepted' = accepted \cup Range(toSend(k))
  /\ flushed' = [flushed EXCEPT ![k] =
                   Append(@, [batch |-> toSend(k), ok |-> TRUE, final |-> lwFinal[k]])]
  /\ buffers' = [buffers EXCEPT ![k] = <<>>]
  /\ Returned(k)
  /\ UNCHANGED <<mainpc, run, files, owed, recovery, dataChan, closed, lwFinal,
                 extraction, closeIdx, enq, closeCount, startDisk>>

\* sendToAPI returns an error (transport error, or a status outside 200..299)
SendFail(k) ==
  /\ Alive /\ lwpc[k] = "flush"
  /\ flushed' = [flushed EXCEPT ![k] =
                   Append(@, [batch |-> toSend(k), ok |-> FALSE, final |-> lwFinal[k]])]
  /\ lwpc' = [lwpc EXCEPT ![k] = "create"]
  /\ UNCHANGED <<mainpc, run, disk, recovery, dataChan, closed, buffers, lwFinal,
                 loadWg, extraction, closeIdx, enq, closeCount, startDisk>>

\* saveBufferToFile: os.Create(filename + ".json.gz") truncates the file
SaveCreate(k) ==
  /\ Alive /\ lwpc[k] = "create"
  /\ files' = [files EXCEPT ![FileNameOf(k)] = BadFile]
  /\ lwpc' = [lwpc EXCEPT ![k] = "write"]
  /\ UNCHANGED <<mainpc, run, accepted, owed, recovery, dataChan, closed, buffers,
                 lwFinal, flushed, loadWg, extraction, closeIdx, enq, closeCount,
                 startDisk>>

\* Fault variant: the last record of the batch is not written.
SavedFileMutant(data) == GoodFile(SubSeq(data, 1, Len(data) - 1))
\* What saveBufferToFile leaves in the file.
SavedFile(data) == GoodFile(data)

\* saveBufferToFile: encoder.Encode(data), gzipWriter.Close(), file.Close();
\* back in flushBuffer: buffer.Data = nil
SaveWrite(k) ==
  /\ Alive /\ lwpc[k] = "write"
  /\ files' = [files EXCEPT ![FileNameOf(k)] = SavedFile(toSend(k))]
  /\ buffers' = [buffers EXCEPT ![k] = <<>>]
  /\ Returned(k)
  /\ UNCHANGED <<mainpc, run, accepted, owed, recovery, dataChan, closed, lwFinal,
                 flushed, extraction, closeIdx, enq, closeCount, startDisk>>

\* ------------------------------------------------------ crash and restart
\* The process is killed.
Crash ==
  /\ Alive
  /\ Dies("crashed")
  /\ UNCHANGED <<run, disk>>

\* The program is started again in the same working directory.
Restart ==
  /\ ~Alive /\ run < MaxRuns
  /\ run' = run + 1
  /\ mainpc' = "init"
  /\ ResetMemory
  /\ UNCHANGED disk

Next ==
  \/ Glob \/ RecoverRead \/ RecoverEnqueue \/ RecoverRemove \/ RecoverDone
  \/ StartLoadWorkers \/ Spawn \/ ExtractWait \/ CloseChan \/ LoadWait
  \/ \E i \in Appliances :
       ExtractOk(i) \/ ExtractErr(i) \/ Enqueue(i) \/ ReleaseSem(i) \/ WgDone(i)
  \/ \E k \in Lanes :
       Recv(k) \/ RangeEnd(k) \/ SendOk(k) \/ SendFail(k) \/ SaveCreate(k) \/ SaveWrite(k)
  \/ Crash \/ Restart

Spec == Init /\ [][Next]_vars


\* Runs that are not killed, under the fairness the Go scheduler gives every
\* goroutine that can take a step (main, each extraction goroutine, each load
\* worker); extractCpuData and sendToAPI return within their timeouts.
MainStep ==
  \/ Glob \/ RecoverRead \/ RecoverEnqueue \/ RecoverRemove \/ RecoverDone
  \/ StartLoadWorkers \/ Spawn \/ ExtractWait \/ CloseChan \/ LoadWait

TaskStep(i) ==
  \/ ExtractOk(i) \/ ExtractErr(i) \/ Enqueue(i) \/ ReleaseSem(i) \/ WgDone(i)

WorkerStep(k) ==
  \/ Recv(k) \/ RangeEnd(k) \/ SendOk(k) \/ SendFail(k) \/ SaveCreate(k) \/ SaveWrite(k)

LiveNext ==
  \/ MainStep
  \/ \E i \in Appliances : TaskStep(i)
  \/ \E k \in Lanes : WorkerStep(k)
  \/ Restart

LiveSpec ==
  /\ Init /\ [][LiveNext]_vars
  /\ WF_vars(MainStep)
  /\ \A i \in Appliances : WF_vars(TaskStep(i))
  /\ \A k \in Lanes : WF_vars(WorkerStep(k))
  /\ WF_vars(Restart)

\* One run, not killed, in a working directory that already holds files:
\* files left by earlier runs of this build (runs 0, -1, ...) under the lane
\* names, and files under the other names the pattern matches.
OldRecord(i, r) == transform(CpuStatsOf(i, r))

\* The contents a file can have at startup, per name.
StartFiles(f) ==
  IF f = FileNameOf(0) THEN {NoFile, GoodFile(<<OldRecord(0, 0), OldRecord(loadWorkers, 0)>>)}
  ELSE IF f = FileNameOf(1) THEN {NoFile, GoodFile(<<OldRecord(1, -1), OldRecord(1, 0)>>)}
  ELSE IF f = <<Letter>>
       THEN {NoFile, GoodFile(<<OldRecord(0, -1)>>),
             GoodFile([j \in 1 .. (chanCap + 1) |-> OldRecord(0, 0 - j)])}
  ELSE IF f \in ForeignNames THEN {NoFile, GoodFile(<<OldRecord(0, -2)>>)}
  ELSE {NoFile}

DiskInit ==
  /\ mainpc = "init" /\ run = 1
  /\ files \in {d \in [FileNames -> UNION {StartFiles(f) : f \in FileNames}] :
                  \A f \in FileNames : d[f] \in StartFiles(f)}
  /\ accepted = {} /\ owed = {}
  /\ FreshMemory

DiskNext ==
  \/ MainStep
  \/ \E i \in Appliances : TaskStep(i)
  \/ \E k \in Lanes : WorkerStep(k)

DiskSpec == DiskInit /\ [][DiskNext]_vars

\* ---------------------------------------------------------------- claims
\* Extraction goroutines that have been started and whose body (extract,
\* transform, enqueue) has not yet handed its permit back.
InFlight == {i \in Appliances : tpc[i] \in {"extract", "send", "release"}}

\* C1: at most extractWorkers extraction tasks are in flight in every state,
\* and in every run that is not killed every appliance's task is started and
\* runs to its end (an appliance beyond the limit waits, it is not dropped).
C1_BoundedExtraction ==
  /\ [](Cardinality(InFlight) <= extractWorkers /\ sem = Cardinality(InFlight))
  /\ \A i \in Appliances : (mainpc = "init") ~> (tpc[i] = "done")

\* All permits are taken while an appliance is still waiting for its task.
C1_Witness ==
  /\ mainpc = "spawn" /\ spawnIdx < NumAppliances
  /\ Cardinality(InFlight) = extractWorkers


\* Batches of a lane's flushes, one after the other.
RECURSIVE Flat(_)
Flat(fl) == IF fl = <<>> THEN <<>> ELSE Flat(SubSeq(fl, 1, Len(fl) - 1)) \o fl[Len(fl)].batch

IsPrefix(a, b) == Len(a) <= Len(b) /\ SubSeq(b, 1, Len(a)) = a

\* Number of times record d occurs in sequence s.
Occurrences(d, s) == Cardinality({j \in 1 .. Len(s) : s[j] = d})

\* The batches of lane k whose flush failed in this run.
FailedBatches(k) == {flushed[k][j].batch : j \in {n \in 1 .. Len(flushed[k]) : ~flushed[k][n].ok}}

\* C2: when a run ends, every record of every batch whose flush failed during
\* the run is in a decodable persisted-failure file.
C2_FailedBatchesPersisted ==
  mainpc = "done" =>
    \A k \in Lanes : \A b \in FailedBatches(k) : Range(b) \subseteq RecordsOnDisk(files)

\* C3: whenever no run is in progress (the process has exited or was killed,
\* so that nothing is left in memory), every record that was in a persisted
\* file at the start of some run is still in a persisted file or has been
\* accepted by the endpoint.
C3_AtLeastOnce ==
  ~Alive => \A d \in owed : d \in accepted \/ d \in RecordsOnDisk(files)

\* Lane k's worker takes a step of flushBuffer.
FlushStep(k) ==
  /\ lwpc[k] \in {"flush", "create", "write"}
  /\ lwpc'[k] # lwpc[k]
  /\ mainpc' = mainpc

\* flushBuffer of lane k returns.
FlushReturns(k) == FlushStep(k) /\ lwpc'[k] \in {"recv", "done"}

Received(k) == Len(enq[k]) - Len(dataChan[k])

\* C5 as stated: a lane that received exactly bufferThreshold records has
\* flushed exactly once before it receives another, and a lane that received
\* fewer than bufferThreshold records in the run has flushed exactly once,
\* at closure.
C5_Original ==
  \A k \in Lanes :
    /\ (Received(k) = bufferThreshold /\ lwpc[k] \in {"recv", "done"}) =>
         Len(flushed[k]) = 1
    /\ (lwpc[k] = "done" /\ Len(enq[k]) < bufferThreshold) =>
         (Len(flushed[k]) = 1 /\ flushed[k][1].final)

\* C5, amended: as C5_Original, for a lane that received at least one record;
\* and a lane that has received fewer than bufferThreshold records has not
\* flushed before its queue is closed.
C5_FlushCount ==
  \A k \in Lanes :
    /\ (Received(k) = bufferThreshold /\ lwpc[k] \in {"recv", "done"}) =>
         Len(flushed[k]) = 1
    /\ (Received(k) = bufferThreshold /\ lwpc[k] \in {"create", "write"}) =>
         Len(flushed[k]) = 1
    /\ Received(k) < bufferThreshold => (flushed[k] = <<>> \/ lwFinal[k])
    /\ (lwpc[k] = "done" /\ Len(enq[k]) \in 1 .. (bufferThreshold - 1)) =>
         (Len(flushed[k]) = 1 /\ flushed[k][1].final /\ closed[k])

\* One lane ended with exactly bufferThreshold records, another with fewer.
C5_Witness ==
  \E k, j \in Lanes :
    /\ lwpc[k] = "done" /\ lwpc[j] = "done"
    /\ Len(enq[k]) = bufferThreshold /\ Len(flushed[k]) = 1 /\ ~flushed[k][1].final
    /\ Len(enq[j]) \in 1 .. (bufferThreshold - 1) /\ Len(flushed[j]) = 1

\* C6: every queue is closed at most once (exactly once when the run ends),
\* and only after every extraction task has finished; no send on a closed
\* queue ever happens (the process never panics); no load worker terminates
\* before its queue is closed.
C6_ClosureProtocol ==
  /\ mainpc # "panic"
  /\ \A k \in Lanes :
       /\ closeCount[k] <= 1
       /\ closed[k] <=> closeCount[k] = 1
       /\ closed[k] =>
            /\ \A i \in Appliances : tpc[i] = "done"
            /\ extractWg = 0
            /\ ~recBusy /\ mainpc \in {"close", "done"}
       /\ lwpc[k] = "done" => closed[k]
       /\ mainpc = "done" => closeCount[k] = 1 /\ lwpc[k] = "done"

\* A run has ended with every queue closed.
C6_Witness == mainpc = "done" /\ \A k \in Lanes : closed[k] /\ enq[k] # <<>>

\* The records extracted in this run (not recovered ones).
Fresh(d) == d.Timestamp = run

\* C7: the record of the appliance at position i is enqueued onto lane
\* i mod loadWorkers, once, and onto no other lane.
C7_Partitioning ==
  /\ \A k \in Lanes : \A j \in 1 .. Len(enq[k]) :
       Fresh(enq[k][j]) =>
         /\ k = enq[k][j].Name % loadWorkers
         /\ Occurrences(enq[k][j], enq[k]) = 1
         /\ tpc[enq[k][j].Name] \in {"release", "wgdone", "done"}
  /\ \A i \in Appliances :
       tpc[i] = "send" => \A k \in Lanes : \A j \in 1 .. Len(enq[k]) : enq[k][j].Name # i \/ ~Fresh(enq[k][j])

\* Every appliance's record of this run has been enqueued.
C7_Witness ==
  \A i \in Appliances : \E k \in Lanes : \E j \in 1 .. Len(enq[k]) :
    Fresh(enq[k][j]) /\ enq[k][j].Name = i

\* C8: the batches a lane's worker has flushed, one after the other, are the
\* records in the order they were enqueued on the lane's queue: a prefix at
\* any time, all of them when the worker has terminated.
C8_WithinLaneOrder ==
  \A k \in Lanes :
    /\ IsPrefix(Flat(flushed[k]), enq[k])
    /\ lwpc[k] = "done" => Flat(flushed[k]) = enq[k]

\* A lane's worker has terminated after more than one flush.
C8_Witness == \E k \in Lanes : lwpc[k] = "done" /\ Len(flushed[k]) >= 2

\* What recovery has to enqueue on lane k: the records of lane k's file.
Recoverable(k) ==
  IF startDisk[FileNameOf(k)].st = "ok" THEN Decode(startDisk[FileNameOf(k)].data) ELSE <<>>

\* C9: recovery enqueues the records of lane k's valid file once, in file
\* order, on lane k's queue and on no other; the file is removed only after
\* the last of them is enqueued; with no persisted file recovery changes no
\* queue and no file.
C9_RecoveryPerFile ==
  /\ mainpc = "recover" =>
       \A k \in Lanes :
         /\ IsPrefix(enq[k], Recoverable(k)) /\ dataChan[k] = enq[k]
         /\ files[FileNameOf(k)] # startDisk[FileNameOf(k)] =>
              (enq[k] = Recoverable(k) /\ files[FileNameOf(k)] = NoFile /\ enq[k] # <<>>)
  /\ mainpc = "startLoad" =>
       \A k \in Lanes :
         /\ enq[k] = Recoverable(k) /\ dataChan[k] = enq[k]
         /\ startDisk[FileNameOf(k)].st = "ok" => files[FileNameOf(k)] = NoFile
         /\ startDisk[FileNameOf(k)].st # "ok" => files[FileNameOf(k)] = startDisk[FileNameOf(k)]
  /\ (mainpc \in {"recover", "startLoad"} /\ recList = <<>>) =>
       (files = startDisk /\ \A k \in Lanes : dataChan[k] = <<>>)

\* Recovery has ended after a file of bufferThreshold records was replayed.
C9_Witness ==
  /\ mainpc = "startLoad"
  /\ \E k \in Lanes : startDisk[FileNameOf(k)].st = "ok" /\ Len(dataChan[k]) = bufferThreshold
                       /\ files[FileNameOf(k)] = NoFile

\* C10: a persisted file is deleted only after the endpoint has accepted its
\* records.
C10_DeleteAfterIngestion ==
  [][\A f \in FileNames :
       (files[f].st = "ok" /\ files'[f].st = "none") =>
         Range(Decode(files[f].data)) \subseteq accepted
    ]_vars

\* The next file of recovery's list is not decodable.
AtBadFile ==
  /\ mainpc = "recover" /\ ~recBusy /\ recIdx <= Len(recList)
  /\ files[recList[recIdx]].st = "bad"

\* The files of the startup directory that are not decodable.
BadAtStart == {f \in FileNames : startDisk[f].st = "bad"}

\* C11: when a persisted file cannot be decoded, recovery's step on it
\* enqueues nothing and leaves every file as it is, and goes on to the next
\* file; when recovery returns, the undecodable files are unchanged, their
\* lanes hold only other files' records, every decodable file has been
\* replayed and removed, and the process has not stopped.
C11_UndecodableSkipped ==
  /\ [][(AtBadFile /\ mainpc' = mainpc) =>
          /\ files' = files /\ enq' = enq /\ dataChan' = dataChan
          /\ ~recBusy' /\ recIdx' = recIdx + 1 /\ recList' = recList
       ]_vars
  /\ [](mainpc # "panic")
  /\ []((mainpc = "startLoad" /\ BadAtStart # {}) =>
          /\ recIdx = Len(recList) + 1
          /\ \A f \in BadAtStart : files[f] = startDisk[f] /\ f \in Range(recList)
          /\ \A k \in Lanes : enq[k] = Recoverable(k)
          /\ \A f \in FileNames \ BadAtStart : files[f] = NoFile)

\* Recovery has returned from a directory with an undecodable file listed
\* before a decodable one.
C11_Witness ==
  /\ mainpc = "startLoad"
  /\ \E m, n \in 1 .. Len(recList) :
       /\ m < n
       /\ startDisk[recList[m]].st = "bad"
       /\ startDisk[recList[n]].st = "ok" /\ files[recList[n]] = NoFile
       /\ enq[RecoverLane(recList[n])] # <<>>

\* The record appliance i's task produces in this run.
FreshOf(i, d) == Fresh(d) /\ d.Name = i

\* Every task and every load worker of the run has run to its end.
RunComplete ==
  /\ mainpc = "done"
  /\ \A i \in Appliances : tpc[i] = "done"
  /\ \A k \in Lanes : lwpc[k] = "done"

\* C12: once the extraction of appliance i has failed in a run, the task only
\* releases its permit and ends (no retry, no send): no record of i from this
\* run is on any lane, in any file or at the endpoint, the permits taken are
\* those of the tasks in flight, and the run goes on until every task and
\* every load worker has ended.
C12_ExtractionFailure ==
  /\ [](\A i \in extractFailed :
          /\ tpc[i] \in {"release", "wgdone", "done"}
          /\ \A k \in Lanes :
               /\ \A j \in 1 .. Len(enq[k]) : ~FreshOf(i, enq[k][j])
               /\ \A j \in 1 .. Len(buffers[k]) : ~FreshOf(i, buffers[k][j])
          /\ \A d \in RecordsOnDisk(files) \cup accepted : ~FreshOf(i, d))
  /\ [](sem = Cardinality(InFlight))
  /\ \A i \in Appliances : (i \in extractFailed) ~> RunComplete

\* A run has ended in which one extraction failed and another appliance's
\* record reached the endpoint.
C12_Witness ==
  /\ RunComplete /\ sem = 0
  /\ \E i \in extractFailed : \E d \in accepted : Fresh(d) /\ d.Name # i

\* Lane k's worker is inside flushBuffer.
Flushing(k) == lwpc[k] \in {"flush", "create", "write"}

\* C13: a lane on which nothing has been enqueued in the run (no recovered
\* and no extracted record) has not flushed, is not calling the endpoint or
\* writing a file, and its file is as it was when the run started; this holds
\* up to and including the end of the run.
C13_EmptyLaneSilent ==
  mainpc \notin {"init", "crashed", "panic"} =>
    \A k \in Lanes :
      enq[k] = <<>> =>
        /\ flushed[k] = <<>> /\ ~Flushing(k) /\ buffers[k] = <<>>
        /\ files[FileNameOf(k)] = startDisk[FileNameOf(k)]

\* A run has ended in which one lane received nothing and its worker has
\* terminated, while another lane flushed.
C13_Witness ==
  /\ mainpc = "done"
  /\ \E k, j \in Lanes :
       /\ enq[k] = <<>> /\ lwpc[k] = "done" /\ closed[k]
       /\ flushed[j] # <<>>

\* The appliances whose position maps to lane k.
LaneShare(k) == {i \in Appliances : i % loadWorkers = k}

\* Batches needed for n records.
BatchesFor(n) == (n + bufferThreshold - 1) \div bufferThreshold

\* A first run on an empty directory in which so far no extraction and no
\* flush has failed.
CleanRun ==
  /\ run = 1 /\ mainpc \notin {"init", "crashed", "panic"}
  /\ extractFailed = {}
  /\ \A k \in Lanes : \A j \in 1 .. Len(flushed[k]) : flushed[k][j].ok

\* Scenario A's sizes: 3 appliances, 2 lanes, threshold 2.
ScenarioA == NumAppliances = 3 /\ loadWorkers = 2 /\ bufferThreshold = 2

\* C14 as stated: in scenario A each lane flushes once and that flush is
\* the one at queue closure (no lane flushes while its queue is open).
C14_Original ==
  (ScenarioA /\ CleanRun) =>
    \A k \in Lanes :
      /\ flushed[k] # <<>> => (closed[k] /\ flushed[k][1].final)
      /\ mainpc = "done" => Len(flushed[k]) = 1

\* C14, amended: at the end of a clean run lane k has received exactly the
\* records of the appliances at positions i with i mod loadWorkers = k, its
\* flushes are the full batches, made when the threshold is reached, and the
\* remainder, made at queue closure, and no file exists. In scenario A:
\* lane 0 gets appliances 0 and 2 and flushes once, at the threshold; lane 1
\* gets appliance 1 and flushes once, at closure.
C14_ScenarioA ==
  (CleanRun /\ mainpc = "done") =>
    /\ \A k \in Lanes :
         /\ Range(enq[k]) = {transform(CpuStatsOf(i, run)) : i \in LaneShare(k)}
         /\ Len(enq[k]) = Cardinality(LaneShare(k))
         /\ Len(flushed[k]) = BatchesFor(Cardinality(LaneShare(k)))
         /\ \A j \in 1 .. Len(flushed[k]) :
              flushed[k][j].final <=> Len(flushed[k][j].batch) < bufferThreshold
    /\ \A f \in FileNames : files[f] = NoFile

\* Scenario A has run to its end, lane 0 having flushed while its queue was
\* still open.
C14_Witness ==
  /\ ScenarioA /\ CleanRun /\ mainpc = "done"
  /\ Len(flushed[0]) = 1 /\ ~flushed[0][1].final /\ Len(flushed[0][1].batch) = 2
  /\ Len(flushed[1]) = 1 /\ flushed[1][1].final

\* Scenario C's directory: at startup lane 1's file holds 2 records and
\* there is no other file; the run has got past recovery.
ScenarioC ==
  /\ mainpc \notin {"init", "recover", "crashed", "panic"}
  /\ startDisk[FileNameOf(1)].st = "ok" /\ Len(startDisk[FileNameOf(1)].data) = 2
  /\ \A f \in FileNames \ {FileNameOf(1)} : startDisk[f] = NoFile

\* Records lane k's worker has flushed.
FlushedCount(k) == Len(Flat(flushed[k]))

\* The appliances of lane k whose extraction succeeded in this run.
Extracted(k) == {i \in LaneShare(k) : tpc[i] \in {"release", "wgdone", "done"}} \ extractFailed

\* C15 as stated: at the end of scenario C lane 1 has flushed the 2
\* recovered records plus the newly extracted ones, and lane 1's file does
\* not exist.
C15_Original ==
  (ScenarioC /\ mainpc = "done") =>
    /\ FlushedCount(1) = 2 + Cardinality(Extracted(1))
    /\ files[FileNameOf(1)] = NoFile

\* C15, amended: in scenario C the recovered records are the first two on
\* lane 1 and lane 1's file is gone when recovery has returned; it stays
\* absent as long as no flush of lane 1 has failed. At the end lane 1 has
\* flushed the 2 recovered records plus the newly extracted ones, and its
\* file is absent exactly when none of its flushes failed.
C15_ScenarioC ==
  ScenarioC =>
    /\ Len(enq[1]) >= 2 /\ SubSeq(enq[1], 1, 2) = Decode(startDisk[FileNameOf(1)].data)
    /\ (\A j \in 1 .. Len(flushed[1]) : flushed[1][j].ok) => files[FileNameOf(1)] = NoFile
    /\ mainpc = "done" =>
         /\ FlushedCount(1) = 2 + Cardinality(Extracted(1))
         /\ files[FileNameOf(1)] = NoFile <=> \A j \in 1 .. Len(flushed[1]) : flushed[1][j].ok

\* Scenario C has run to its end with every flush accepted: three records
\* flushed on lane 1 and no file left.
C15_Witness ==
  /\ ScenarioC /\ mainpc = "done"
  /\ FlushedCount(1) = 3
  /\ \A j \in 1 .. Len(flushed[1]) : flushed[1][j].ok
  /\ files[FileNameOf(1)] = NoFile

\* Main is still before the spawn loop.
BeforeExtraction == mainpc \in {"init", "recover", "startLoad"}

\* No record of this run comes before a recovered record in sequence s.
RecoveredFirst(s) == \A a, b \in 1 .. Len(s) : (a < b /\ Fresh(s[a])) => Fresh(s[b])

\* C16: while recovery has not returned no extraction task has started; once
\* a task has started, each lane's queue history begins with all the records
\* recovered for the lane, in file order, and every record of this run comes
\* after them, in the queue history and in the flushes.
C16_RecoveryPrecedesExtraction ==
  /\ BeforeExtraction =>
       /\ \A i \in Appliances : tpc[i] = "new"
       /\ spawnIdx = 0 /\ sem = 0
       /\ \A k \in Lanes : \A j \in 1 .. Len(enq[k]) : ~Fresh(enq[k][j])
  /\ (\E i \in Appliances : tpc[i] # "new") =>
       /\ RecoveryReturned
       /\ \A k \in Lanes :
            /\ IsPrefix(Recoverable(k), enq[k])
            /\ \A j \in 1 .. Len(enq[k]) : Fresh(enq[k][j]) <=> j > Len(Recoverable(k))
            /\ RecoveredFirst(enq[k])
            /\ RecoveredFirst(Flat(flushed[k]))

\* A lane's worker has terminated after flushing recovered records and
\* records of this run.
C16_Witness ==
  \E k \in Lanes :
    /\ lwpc[k] = "done" /\ Recoverable(k) # <<>>
    /\ Len(Flat(flushed[k])) > Len(Recoverable(k))
    /\ Fresh(enq[k][Len(enq[k])])

\* The places <<batch number, position>> of record d in lane k's flushes.
FlushPlaces(k, d) ==
  {p \in (1 .. Len(flushed[k])) \X (1 .. bufferThreshold) :
     p[2] <= Len(flushed[k][p[1]].batch) /\ flushed[k][p[1]].batch[p[2]] = d}

\* C17: when lane k's worker has terminated, its buffer and its queue are
\* empty and every record that was enqueued on lane k is in exactly one
\* place of exactly one of lane k's flush batches; no batch holds a record
\* that was not enqueued on the lane.
C17_RecordConservation ==
  \A k \in Lanes :
    lwpc[k] = "done" =>
      /\ buffers[k] = <<>> /\ dataChan[k] = <<>>
      /\ \A j \in 1 .. Len(enq[k]) : Cardinality(FlushPlaces(k, enq[k][j])) = 1
      /\ FlushedCount(k) = Len(enq[k])
      /\ \A b \in 1 .. Len(flushed[k]) : Range(flushed[k][b].batch) \subseteq Range(enq[k])

\* A lane's worker has terminated after a threshold flush that failed and a
\* final flush of a remainder.
C17_Witness ==
  \E k \in Lanes :
    /\ lwpc[k] = "done" /\ Len(flushed[k]) >= 2
    /\ ~flushed[k][1].ok /\ ~flushed[k][1].final
    /\ flushed[k][Len(flushed[k])].final
    /\ Len(flushed[k][Len(flushed[k])].batch) < bufferThreshold

\* C18: every run that has not reached its exit can take a step (no run
\* stops short of its exit with main, every task and every worker blocked),
\* whatever files the directory holds at startup. An exit through an index
\* out of range is left to C19.
C18_Termination == mainpc \notin {"done", "panic"} => ENABLED DiskNext

\* C19: the lane recovery uses for the file it is replaying is a lane that
\* exists, whatever integer the file's name carries, and recovery never
\* indexes a queue that does not exist (the process does not stop on an
\* index out of range).
C19_ValidLane ==
  /\ (mainpc = "recover" /\ recBusy) => RecoverLane(recList[recIdx]) \in Lanes
  /\ mainpc # "panic"

\* Allowed sizes of a batch.
BatchSizes == 1 .. bufferThreshold

\* C20: a lane's buffer never holds more than bufferThreshold records, and
\* holds fewer whenever the lane's worker is not inside a flush (the lock is
\* held from the append to the end of the flush it triggers); every batch
\* handed to the endpoint and every file written has between 1 and
\* bufferThreshold records.
C20_BufferBound ==
  /\ \A k \in Lanes :
       /\ Len(buffers[k]) <= bufferThreshold
       /\ ~Flushing(k) => Len(buffers[k]) < bufferThreshold
       /\ Flushing(k) => Len(toSend(k)) \in BatchSizes
       /\ \A j \in 1 .. Len(flushed[k]) : Len(flushed[k][j].batch) \in BatchSizes
  /\ \A f \in FileNames : files[f].st = "ok" => Len(Decode(files[f].data)) \in BatchSizes

\* A lane's buffer is full inside a threshold flush while another lane's
\* buffer holds a record outside any flush.
C20_Witness ==
  \E k, j \in Lanes :
    /\ lwpc[k] = "flush" /\ ~lwFinal[k] /\ Len(buffers[k]) = bufferThreshold
    /\ ~Flushing(j) /\ Len(buffers[j]) > 0

====
